---- MODULE Spec2Model ----
(***************************************************************************)
(* Model of liballocate's heap-structure reconstruction code:              *)
(*   allocators/ptmalloc2/fastbin.py   Fastbin.__getitem__   (walk)         *)
(*   allocators/ptmalloc2/tcache.py    Tcache.__getitem__    (get)          *)
(*                                     Tcache.__setitem__    (set)          *)
(*                                     protect_ptr / reveal_ptr             *)
(*   allocators/ptmalloc2/tcache_entry.py  TcacheEntry.key                  *)
(*                                                                         *)
(* Target memory is a word-addressed image of one heap mapping.  A word    *)
(* read of a mapped address yields the stored word (0 where the image      *)
(* stores nothing); any read of an unmapped address raises MemoryError.    *)
(* Each loop of the code is one action per iteration, so that a walk that  *)
(* never leaves its loop is a behaviour of the model.                       *)
(***************************************************************************)
EXTENDS Integers, Sequences, FiniteSets, TLC

VARIABLES
    version,        \* clib.version, a string (sequence of character codes)
    arch,           \* debugger.arch
    mem,            \* heap image: word address -> stored word
    fastbinsY,      \* main_arena.fastbinsY: bin index -> head address
    counts,         \* tcache_perthread_struct.counts
    entries,        \* tcache_perthread_struct.entries
    pc,             \* position of the running call
    call,           \* the running / last call and its arguments
    curr_address,   \* local of the three loops
    counter,        \* Tcache.__getitem__: counter; Tcache.__setitem__: count
    num_entries,    \* Tcache.__getitem__: num_entries
    chain,          \* entry objects constructed by the call, in order
    ret,            \* what the call returned or raised
    accesses,       \* table accesses made by the running / last call
    keyRes,         \* outcome of the last TcacheEntry.key access
    slPos, slPtr, slEnc, slDec, slStage,  \* protect_ptr / reveal_ptr calls
    chMem,          \* memory around one chunk: offset from its content address -> 4-byte cell
    chObj,          \* the Ptmalloc2Chunk object, once constructed
    chOp,           \* the last chunk operation
    elfHeader,      \* ELF header fields of the library file read by Clib.__init__
    archRes,        \* outcomes of Fastbin.__init__ and Clib.__init__
    rcLibs,         \* DT_NEEDED entries of the binary, in order
    rcTags,         \* DT_RPATH / DT_RUNPATH values and the environment
    rcRet,          \* outcome of resolve_clib_from_binary
    verB,           \* a second version string, compared with `version`
    verRes,         \* outcome of the last version operation
    lzHeap,         \* whether the target has a [heap] mapping
    lzObj,          \* the Ptmalloc2Allocator instance attributes
    lzRet,          \* the last attribute access and its outcome
    vwView,         \* base and size of the ConstrainedMemoryView
    vwAccess,       \* the last indexing call and the debugger access it made
    vwRet           \* outcome of the last indexing call

tableVars == <<fastbinsY, counts, entries>>
imageVars == <<version, arch, mem>>
callVars  == <<pc, call, curr_address, counter, num_entries, chain, ret, accesses, keyRes>>
slVars    == <<slPos, slPtr, slEnc, slDec, slStage>>
chunkVars == <<chMem, chObj, chOp>>
archVars  == <<elfHeader, archRes>>
rcVars    == <<rcLibs, rcTags, rcRet>>
verVars   == <<verB, verRes>>
lazyVars  == <<lzHeap, lzObj, lzRet>>
viewVars  == <<vwView, vwAccess, vwRet>>
moreVars  == <<verVars, lazyVars, viewVars>>
restVars  == <<chunkVars, archVars, rcVars, moreVars>>
vars      == <<imageVars, tableVars, callVars, slVars, restVars>>

----------------------------------------------------------------------------
(* Bounds of the model *)

MaxChain == 8           \* longest chain of linked entries in an image
MaxWalk  == MaxChain + 2 \* entries recorded per call; further ones are walked but not recorded
MaxSlPage == 5          \* pages from which protect_ptr positions are drawn
MaxSlPtr == 7           \* pointers protected are multiples of 0x10 up to MaxSlPtr * 0x10 and page bases

(* Program constants *)

NFASTBINS == 10         \* fastbin.py:41
TCACHE_MAX_BINS == 64   \* size of counts[] and entries[]
MINSIZE == 16           \* tcache.py:118, 129   (0x10)
MALLOC_ALIGNMENT == 16  \* tcache.py:118        (0x10)
PAGE == 4096            \* 1 << 12, tcache.py:96
WORD == 8               \* offset of tcache_entry.key after tcache_entry.next

NoneVal == -1           \* Python None

----------------------------------------------------------------------------
(* Strings: sequences of character codes, compared as Python compares str.
   identify_clib hands the version to Glibc as the plain str it decoded, so
   `version >= "2.29"` is str comparison: code point by code point, a proper
   prefix being the smaller string.                                        *)

V_2_26 == <<50, 46, 50, 54>>
V_2_27 == <<50, 46, 50, 55>>
V_2_29 == <<50, 46, 50, 57>>
V_2_31 == <<50, 46, 51, 49>>
V_2_32 == <<50, 46, 51, 50>>
V_2_35 == <<50, 46, 51, 53>>

Versions == {V_2_27, V_2_31, V_2_35}

RECURSIVE StrLess(_, _)
StrLess(a, b) ==
    IF b = <<>> THEN FALSE
    ELSE IF a = <<>> THEN TRUE
    ELSE IF Head(a) < Head(b) THEN TRUE
    ELSE IF Head(a) > Head(b) THEN FALSE
    ELSE StrLess(Tail(a), Tail(b))

StrGE(a, b) == ~StrLess(a, b)

has_tcache == StrGE(version, V_2_26)
has_tcache_key == StrGE(version, V_2_29)
has_protect_ptr == StrGE(version, V_2_32)

----------------------------------------------------------------------------
(* SafeLink *)

shr11(x) == x \div 2048

shr12(x) == x \div PAGE

RECURSIVE xor(_, _)
xor(a, b) ==
    IF a = 0 THEN b
    ELSE IF b = 0 THEN a
    ELSE (((a % 2) + (b % 2)) % 2) + 2 * xor(a \div 2, b \div 2)

protect_ptr_add(pos, ptr) == shr12(pos) + ptr

protect_ptr(pos, ptr) == xor(shr12(pos), ptr)

reveal_ptr(pos, ptr) == protect_ptr(pos, ptr)

----------------------------------------------------------------------------
(* Heap image *)

HeapBase == 5 * PAGE               \* heap_vmap.base of the image (0x5000)
HeapPages == 2 + MaxChain \div 2
HeapEnd == HeapBase + HeapPages * PAGE
ChunkStride == PAGE \div 2          \* two chunks per page
NullAddr == 0
KeyVal == 3 * PAGE + 1             \* a non-zero tcache key word

EntryAddr(i) == HeapBase + i * ChunkStride

Mapped(a) == a >= HeapBase /\ a < HeapEnd

ReadWord(a) == IF a \in DOMAIN mem THEN mem[a] ELSE 0

tcache_ptr == HeapBase + 16
entries_base == tcache_ptr + 128

(* The images: N entries linked in order, the last one's next being `tail`;
   stored links are protected when the allocator version protects them.    *)
LinkTarget(i, N, tail) == IF i < N THEN EntryAddr(i + 1) ELSE tail

StoredLink(ver, a, target) ==
    IF StrGE(ver, V_2_32) THEN protect_ptr(a, target) ELSE target

Image(ver, N, tail) ==
    [a \in {EntryAddr(i) : i \in 1..N} \cup {EntryAddr(i) + WORD : i \in 1..N} |->
        IF \E i \in 1..N : a = EntryAddr(i)
        THEN LET i == CHOOSE j \in 1..N : a = EntryAddr(j)
             IN  StoredLink(ver, a, LinkTarget(i, N, tail))
        ELSE LET i == CHOOSE j \in 1..N : a = EntryAddr(j) + WORD
             IN  ((i + N) % 2) * KeyVal]

(* the last link is NULL, or leads back to the head or to the entry before the last *)
Tails(N) == {NullAddr} \cup (IF N >= 2 THEN {EntryAddr(1), EntryAddr(N - 1)} ELSE {})

HeadOf(N) == IF N = 0 THEN NullAddr ELSE EntryAddr(1)

DeclaredCounts == {0, 2, MaxChain + 1}

Archs == {"amd64", "i386"}

FbSizes == {16, 32, 48, 192}       \* 0x10, 0x20, 0x30, 0xc0
TcSizes == {8, 32, 64}             \* 0x8, 0x20, 0x40
SetHeads == {EntryAddr(1), NullAddr}

----------------------------------------------------------------------------
(* Results *)

Pending == [kind |-> "pending", val |-> 0]
RetNone == [kind |-> "None", val |-> 0]
RetEntry(i) == [kind |-> "entry", val |-> i]
Raise(e) == [kind |-> "raise", val |-> e]
NoKey == [kind |-> "none", entry |-> 0, val |-> 0]

Record(ch, e) == IF Len(ch) < MaxWalk THEN Append(ch, e) ELSE ch

----------------------------------------------------------------------------
(* Fastbin *)

SIZE_SZ == IF arch \in {"amd64", "aarch64"} THEN 8 ELSE 4

(* _perthread_struct.entries[i].address: the slots are pointers *)
entries_address_offset(i) == i * SIZE_SZ

entries_address(i) == entries_base + i * SIZE_SZ

_fastbin_index_16(size) == (size \div 16) - 2

_fastbin_index(size) == (size \div (IF SIZE_SZ = 8 THEN 16 ELSE 8)) - 2

(* main_arena.fastbinsY[index].value; the code passes any index on to the
   struct library, whose answer for an index outside the table is either an
   IndexError or the word found at that offset from the table.             *)
OutOfTableWords == {NullAddr, EntryAddr(1)}

_get_fastbinY_by_index(index) ==
    IF index \in 0..(NFASTBINS - 1)
    THEN {RetEntry(fastbinsY[index])}
    ELSE {Raise("IndexError")} \cup {RetEntry(w) : w \in OutOfTableWords}

FastbinGetItem(size) ==
    /\ pc \in {"idle", "returned"}
    /\ LET index == _fastbin_index(size)
       IN  /\ call' = [fn |-> "fastbin", size |-> size, value |-> NoneVal, index |-> index]
           /\ accesses' = {<<"fastbinsY", index, "r">>}
           /\ \E head \in _get_fastbinY_by_index(index) :
                IF head.kind = "raise"
                THEN /\ pc' = "returned"
                     /\ ret' = head
                     /\ curr_address' = NoneVal
                ELSE /\ pc' = "fastbin_loop"
                     /\ ret' = Pending
                     /\ curr_address' = head.val
    /\ chain' = <<>>
    /\ counter' = 0
    /\ num_entries' = 0
    /\ keyRes' = NoKey
    /\ UNCHANGED <<imageVars, tableVars, slVars, restVars>>

FastbinLoop ==
    /\ pc = "fastbin_loop"
    /\ LET address == curr_address
       IN  IF ~Mapped(address)
           THEN /\ pc' = "returned"
                /\ ret' = Raise("MemoryError")
                /\ UNCHANGED <<curr_address, chain>>
           ELSE LET raw_next == ReadWord(address)
                    next_value == IF has_protect_ptr
                                  THEN reveal_ptr(address, raw_next)
                                  ELSE raw_next
                    new_entry == [address |-> address, next_value |-> next_value,
                                  raw_next |-> raw_next]
                    valid_next == Mapped(next_value)
                IN  /\ chain' = Record(chain, new_entry)
                    /\ curr_address' = next_value
                    /\ IF valid_next
                       THEN /\ pc' = "fastbin_loop"
                            /\ ret' = ret
                       ELSE /\ pc' = "returned"
                            /\ ret' = RetEntry(Len(chain'))
    /\ UNCHANGED <<restVars, imageVars, tableVars, slVars, call, counter, num_entries, accesses, keyRes>>

----------------------------------------------------------------------------
(* Tcache *)

FloorDiv(a, b) == a \div b

_csize2tidx_word(size) == FloorDiv(size - MINSIZE + 2 * SIZE_SZ - 1, 2 * SIZE_SZ)

_csize2tidx(size) == FloorDiv(size - MINSIZE + MALLOC_ALIGNMENT - 1, MALLOC_ALIGNMENT)

GetSizeTooSmall_word(size) == size < WORD

GetSizeTooSmall(size) == size < MINSIZE

(* _perthread_struct.entries[index].value and .counts[index]; the code passes
   any index on to the struct library, whose answer for an index outside the
   64 slots is either an IndexError or what lies at that offset from the
   table. *)
OutOfTableCounts == {0, 1}

_perthread_slot(index) ==
    IF index \in 0..(TCACHE_MAX_BINS - 1)
    THEN {[kind |-> "slot", val |-> <<entries[index], counts[index]>>]}
    ELSE {Raise("IndexError")}
            \cup {[kind |-> "slot", val |-> <<w, c>>] :
                      w \in OutOfTableWords, c \in OutOfTableCounts}

(* the call that came before a get, and whether it returned normally *)
LastCall ==
    [fn |-> call.fn, index |-> call.index, value |-> call.value,
     ok |-> (pc = "returned" /\ ret.kind = "None")]

TcacheGetItem_pop(size) ==
    /\ pc \in {"idle", "returned"}
    /\ has_tcache
    /\ chain' = <<>>
    /\ counter' = 0
    /\ keyRes' = NoKey
    /\ IF GetSizeTooSmall(size)
       THEN /\ call' = [fn |-> "get", size |-> size, value |-> NoneVal, index |-> NoneVal,
                         after |-> LastCall]
            /\ pc' = "returned"
            /\ ret' = Raise("ValueError")
            /\ accesses' = {}
            /\ curr_address' = NoneVal
            /\ num_entries' = 0
       ELSE LET tcache_index == _csize2tidx(size)
            IN  /\ call' = [fn |-> "get", size |-> size, value |-> NoneVal,
                            index |-> tcache_index, after |-> LastCall]
                /\ \E slot \in _perthread_slot(tcache_index) :
                     IF slot.kind = "raise"
                     THEN /\ pc' = "returned"
                          /\ ret' = slot
                          /\ accesses' = {<<"entries", tcache_index, "r">>}
                          /\ curr_address' = NoneVal
                          /\ num_entries' = 0
                     ELSE /\ pc' = "get_loop"
                          /\ ret' = Pending
                          /\ accesses' = {<<"entries", tcache_index, "r">>,
                                          <<"counts", tcache_index, "r">>}
                          /\ curr_address' = slot.val[1]
                          /\ num_entries' = slot.val[2]
    /\ counts' = IF \/ GetSizeTooSmall(size)
                    \/ _csize2tidx(size) \notin 0..(TCACHE_MAX_BINS - 1)
                    \/ counts[_csize2tidx(size)] = 0
                 THEN counts
                 ELSE [counts EXCEPT ![_csize2tidx(size)] = @ - 1]
    /\ UNCHANGED <<imageVars, fastbinsY, entries, slVars, restVars>>

TcacheGetItem(size) ==
    /\ pc \in {"idle", "returned"}
    /\ has_tcache
    /\ chain' = <<>>
    /\ counter' = 0
    /\ keyRes' = NoKey
    /\ IF GetSizeTooSmall(size)
       THEN /\ call' = [fn |-> "get", size |-> size, value |-> NoneVal, index |-> NoneVal,
                         after |-> LastCall]
            /\ pc' = "returned"
            /\ ret' = Raise("ValueError")
            /\ accesses' = {}
            /\ curr_address' = NoneVal
            /\ num_entries' = 0
       ELSE LET tcache_index == _csize2tidx(size)
            IN  /\ call' = [fn |-> "get", size |-> size, value |-> NoneVal,
                            index |-> tcache_index, after |-> LastCall]
                /\ \E slot \in _perthread_slot(tcache_index) :
                     IF slot.kind = "raise"
                     THEN /\ pc' = "returned"
                          /\ ret' = slot
                          /\ accesses' = {<<"entries", tcache_index, "r">>}
                          /\ curr_address' = NoneVal
                          /\ num_entries' = 0
                     ELSE /\ pc' = "get_loop"
                          /\ ret' = Pending
                          /\ accesses' = {<<"entries", tcache_index, "r">>,
                                          <<"counts", tcache_index, "r">>}
                          /\ curr_address' = slot.val[1]
                          /\ num_entries' = slot.val[2]
    /\ UNCHANGED <<imageVars, tableVars, slVars, restVars>>

TcacheGetLoop ==
    /\ pc = "get_loop"
    /\ IF curr_address # NoneVal /\ counter < num_entries
       THEN IF ~Mapped(curr_address)
            THEN /\ pc' = "returned"
                 /\ ret' = Raise("MemoryError")
                 /\ UNCHANGED <<curr_address, counter, chain>>
            ELSE LET raw == ReadWord(curr_address)
                     plain_next_address == IF has_protect_ptr
                                           THEN reveal_ptr(curr_address, raw)
                                           ELSE raw
                     is_next_valid == Mapped(plain_next_address)
                     key == IF ~has_tcache_key THEN NoneVal
                            ELSE ReadWord(curr_address + WORD)
                     next_address == IF is_next_valid THEN plain_next_address ELSE NoneVal
                     entry == [address |-> curr_address, next |-> next_address, _key |-> key]
                 IN  /\ chain' = Record(chain, entry)
                     /\ IF counter > 0
                        THEN \* curr_entry.next = entry, on a frozen dataclass
                             /\ pc' = "returned"
                             /\ ret' = Raise("FrozenInstanceError")
                             /\ UNCHANGED <<curr_address, counter>>
                        ELSE /\ pc' = "get_loop"
                             /\ ret' = ret
                             /\ curr_address' = next_address
                             /\ counter' = counter + 1
       ELSE \* the method ends without a return statement
            /\ pc' = "returned"
            /\ ret' = RetNone
            /\ UNCHANGED <<curr_address, counter, chain>>
    /\ UNCHANGED <<restVars, imageVars, tableVars, slVars, call, num_entries, accesses, keyRes>>

TcacheSetItem_counts_first(size, value) ==
    /\ pc \in {"idle", "returned"}
    /\ has_tcache
    /\ LET tcache_index == _csize2tidx(size)
       IN  /\ call' = [fn |-> "set", size |-> size, value |-> value, index |-> tcache_index]
           /\ counts' = IF tcache_index \in 0..(TCACHE_MAX_BINS - 1)
                         THEN [counts EXCEPT ![tcache_index] = 1] ELSE counts
    /\ pc' = "set_loop"
    /\ ret' = Pending
    /\ counter' = 0
    /\ curr_address' = value
    /\ chain' = <<>>
    /\ num_entries' = 0
    /\ accesses' = {}
    /\ keyRes' = NoKey
    /\ UNCHANGED <<imageVars, fastbinsY, entries, slVars, restVars>>

TcacheSetItem(size, value) ==
    /\ pc \in {"idle", "returned"}
    /\ has_tcache
    /\ LET tcache_index == _csize2tidx(size)
       IN  call' = [fn |-> "set", size |-> size, value |-> value, index |-> tcache_index]
    /\ pc' = "set_loop"
    /\ ret' = Pending
    /\ counter' = 0
    /\ curr_address' = value
    /\ chain' = <<>>
    /\ num_entries' = 0
    /\ accesses' = {}
    /\ keyRes' = NoKey
    /\ UNCHANGED <<imageVars, tableVars, slVars, restVars>>

TcacheSetLoop ==
    /\ pc = "set_loop"
    /\ IF curr_address # NoneVal
       THEN IF ~Mapped(curr_address)
            THEN /\ pc' = "returned"
                 /\ ret' = Raise("MemoryError")
                 /\ UNCHANGED <<curr_address, counter, counts, entries, accesses>>
            ELSE LET raw == ReadWord(curr_address)
                     plain_next_address == IF has_protect_ptr
                                           THEN reveal_ptr(curr_address, raw)
                                           ELSE raw
                     is_next_valid == Mapped(plain_next_address)
                     next_address == IF is_next_valid THEN plain_next_address ELSE NoneVal
                 IN  /\ curr_address' = next_address
                     /\ counter' = IF counter < MaxWalk THEN counter + 1 ELSE counter
                     /\ pc' = "set_loop"
                     /\ ret' = ret
                     /\ UNCHANGED <<counts, entries, accesses>>
       ELSE LET tcache_index == call.index
                count == counter
                pos == entries_address(tcache_index)
                encoded_ptr == IF has_protect_ptr
                               THEN protect_ptr(pos, call.value)
                               ELSE call.value
            IN  IF tcache_index \in 0..(TCACHE_MAX_BINS - 1)
                THEN /\ counts' = [counts EXCEPT ![tcache_index] =
                                      IF count > 0 THEN count ELSE 1]
                     /\ entries' = [entries EXCEPT ![tcache_index] = encoded_ptr]
                     /\ accesses' = {<<"counts", tcache_index, "w">>,
                                     <<"entries", tcache_index, "w">>}
                     /\ pc' = "returned"
                     /\ ret' = RetNone
                     /\ UNCHANGED <<curr_address, counter>>
                ELSE \* the struct library raises, or the two writes land outside the table
                     /\ \E raised \in BOOLEAN :
                          IF raised
                          THEN /\ ret' = Raise("IndexError")
                               /\ accesses' = {<<"counts", tcache_index, "w">>}
                          ELSE /\ ret' = RetNone
                               /\ accesses' = {<<"counts", tcache_index, "w">>,
                                               <<"entries", tcache_index, "w">>}
                     /\ pc' = "returned"
                     /\ UNCHANGED <<curr_address, counter, counts, entries>>
    /\ UNCHANGED <<restVars, imageVars, fastbinsY, slVars, call, num_entries, chain, keyRes>>

(* TcacheEntry.key, on an entry constructed by the last get *)
TcacheEntryKey_falsy(e) ==
    IF e._key = NoneVal \/ e._key = 0
    THEN Raise("NotImplementedError") ELSE [kind |-> "value", val |-> e._key]

TcacheEntryKey(e) ==
    IF e._key = NoneVal THEN Raise("NotImplementedError") ELSE [kind |-> "value", val |-> e._key]

KeyAccess(i) ==
    /\ pc = "returned"
    /\ call.fn = "get"
    /\ i \in 1..Len(chain)
    /\ LET r == TcacheEntryKey(chain[i])
       IN  keyRes' = [kind |-> r.kind, entry |-> i, val |-> r.val]
    /\ UNCHANGED <<restVars, imageVars, tableVars, slVars, pc, call, curr_address, counter,
                   num_entries, chain, ret, accesses>>

----------------------------------------------------------------------------
(* Ptmalloc2Chunk: the chunk header at a content address.  Memory around the
   chunk is kept as 4-byte little-endian cells indexed by their offset from the
   content address; an 8-byte integer is the pair <<low cell, high cell>>. *)

MaxContentCells == 8
CELL == WORD \div 2
ChunkHeaderBytes == 16

HeaderOffsets == {0 - CELL * k : k \in 1..(ChunkHeaderBytes \div CELL)}
ContentOffsets == {CELL * k : k \in 0..(MaxContentCells - 1)}
ChunkOffsets == HeaderOffsets \cup ContentOffsets

(* int.from_bytes(m[o : o + 8], "little") *)
Word8(m, o) == <<m[o], m[o + CELL]>>

(* memory[o, 8] = w.to_bytes(8, "little") *)
StoreWord8(m, o, w) == [m EXCEPT ![o] = w[1], ![o + CELL] = w[2]]

(* A small Python int as an 8-byte integer *)
IntWord(n) == <<n, 0>>

(* w & 0xfffffffffffffff8 *)
MaskFlags(w) == <<w[1] - (w[1] % 8), w[2]>>

(* w & b == b, for a one-bit b of the low cell *)
TestBit(w, b) == (w[1] \div b) % 2 = 1

(* w | b *)
OrBit(w, b) == IF TestBit(w, b) THEN w ELSE <<w[1] + b, w[2]>>

NoChunk == [kind |-> "none"]
ChunkRaise(e) == [kind |-> "raise", exc |-> e]

(* memory[address, size - 0x10]: the outcomes of the content read.  A length
   beyond the mapped region fails; what a negative length does is decided by
   the debugger library, so both of its outcomes are kept. *)
ReadContent(m, size) ==
    LET fail == [ok |-> FALSE, data |-> <<>>]
        empty == [ok |-> TRUE, data |-> <<>>]
        n == (size[1] - ChunkHeaderBytes) \div CELL
    IN  IF size[2] # 0 \/ n > MaxContentCells THEN {fail}
        ELSE IF size[1] < ChunkHeaderBytes THEN {fail, empty}
        ELSE {[ok |-> TRUE, data |-> [k \in 1..n |-> m[CELL * (k - 1)]]]}

(* Ptmalloc2Chunk.__init__: the objects (or the error) it can produce on memory m *)
chunk_init(m) ==
    LET prev_size == Word8(m, 0 - ChunkHeaderBytes)
        size_plus_flags == Word8(m, 0 - WORD)
        size == MaskFlags(size_plus_flags)
        obj(c) == [kind |-> "chunk",
                   _prev_size |-> prev_size,
                   _size |-> size,
                   _is_allocated_arena |-> TestBit(size_plus_flags, 2),
                   _is_mmapped |-> TestBit(size_plus_flags, 2),
                   _is_prev_inuse |-> TestBit(size_plus_flags, 1),
                   _content |-> c]
    IN  {IF r.ok THEN obj(r.data) ELSE ChunkRaise("MemoryError") : r \in ReadContent(m, size)}

_compute_size_plus_flags(o) ==
    LET a == IF o._is_allocated_arena THEN OrBit(o._size, 2) ELSE o._size
        b == IF o._is_mmapped THEN OrBit(a, 2) ELSE a
    IN  IF o._is_prev_inuse THEN OrBit(b, 1) ELSE b

(* _update_size_in_memory and _update_flags_in_memory *)
_update_size_in_memory(m, o) == StoreWord8(m, 0 - WORD, _compute_size_plus_flags(o))

_update_prev_size_in_memory(m, o) == StoreWord8(m, 0 - ChunkHeaderBytes, o._prev_size)

_update_content_in_memory(m, o) ==
    [a \in ChunkOffsets |->
        IF a >= 0 /\ a \div CELL < Len(o._content) THEN o._content[a \div CELL + 1] ELSE m[a]]

ChunkOp(name, arg) == [name |-> name, arg |-> arg, before |-> Word8(chMem, 0 - WORD)]

ChunkAt ==
    /\ chObj' \in chunk_init(chMem)
    /\ chOp' = ChunkOp("decode", 0)
    /\ UNCHANGED <<chMem, imageVars, tableVars, callVars, slVars, archVars, rcVars, moreVars>>

ChunkMutate(name, arg, o) ==
    /\ chObj.kind = "chunk"
    /\ chObj' = o
    /\ chOp' = ChunkOp(name, arg)
    /\ UNCHANGED <<imageVars, tableVars, callVars, slVars, archVars, rcVars, moreVars>>

SetSize(value) ==
    LET o == [chObj EXCEPT !._size = IntWord(value)]
    IN  /\ ChunkMutate("set_size", value, o)
        /\ chMem' = _update_size_in_memory(chMem, o)

SetPrevSize(value) ==
    LET o == [chObj EXCEPT !._prev_size = IntWord(value)]
    IN  /\ ChunkMutate("set_prev_size", value, o)
        /\ chMem' = _update_prev_size_in_memory(chMem, o)

SetIsAllocatedArena(value) ==
    LET o == [chObj EXCEPT !._is_allocated_arena = value]
    IN  /\ ChunkMutate("set_is_allocated_arena", value, o)
        /\ chMem' = _update_size_in_memory(chMem, o)

SetIsMmapped(value) ==
    LET o == [chObj EXCEPT !._is_mmapped = value]
    IN  /\ ChunkMutate("set_is_mmapped", value, o)
        /\ chMem' = _update_size_in_memory(chMem, o)

SetIsPrevInuse(value) ==
    LET o == [chObj EXCEPT !._is_prev_inuse = value]
    IN  /\ ChunkMutate("set_is_prev_inuse", value, o)
        /\ chMem' = _update_size_in_memory(chMem, o)

SetContent(value) ==
    LET o == [chObj EXCEPT !._content = value]
    IN  /\ ChunkMutate("set_content", value, o)
        /\ chMem' = _update_content_in_memory(chMem, o)

----------------------------------------------------------------------------
(* Architecture resolution: Fastbin.__init__ and Clib.__init__ *)

(* Fastbin.__init__: the match on allocator._debugger.arch has a default case
   that logs and goes on with 4-byte words. *)
Fastbin_init ==
    [kind |-> "fastbin",
     val |-> [SIZE_SZ |-> SIZE_SZ,
              NFASTBINS |-> NFASTBINS,
              MAX_FAST_SIZE |-> (80 * SIZE_SZ) \div 4,
              logged |-> arch \notin {"amd64", "aarch64", "i386"}]]

(* Clib.__init__ up to the match on e_machine, whose cases are tried in order;
   e_machine is the two bytes at 0x12 of the ELF header *)
Clib_init(h) ==
    LET word_size == IF h.ei_class = 2 THEN 8 ELSE 4
        made(a) == [kind |-> "clib", val |-> [arch |-> a, word_size |-> word_size]]
    IN  IF ~h.magic THEN Raise("ValueError")
        ELSE IF h.ei_osabi # 3 \/ h.ei_abiversion # 0 THEN Raise("ValueError")
        ELSE IF h.e_machine = <<3, 0>> THEN made("i386")
        ELSE IF h.e_machine = <<62, 0>> THEN made("amd64")
        ELSE IF h.e_machine = <<62, 0>> THEN made("aarch64")
        ELSE Raise("ValueError")

FastbinInit ==
    /\ archRes.fastbin.kind = "pending"
    /\ archRes' = [archRes EXCEPT !.fastbin = Fastbin_init]
    /\ UNCHANGED <<imageVars, tableVars, callVars, slVars, chunkVars, rcVars, elfHeader, moreVars>>

ClibInit ==
    /\ archRes.clib.kind = "pending"
    /\ archRes' = [archRes EXCEPT !.clib = Clib_init(elfHeader)]
    /\ UNCHANGED <<imageVars, tableVars, callVars, slVars, chunkVars, rcVars, elfHeader, moreVars>>

----------------------------------------------------------------------------
(* resolve_clib_from_binary.  Strings are sequences of character codes. *)

STR_libc == <<108, 105, 98, 99>>                                     \* "libc"
STR_libc_so_6 == <<108, 105, 98, 99, 46, 115, 111, 46, 54>>              \* "libc.so.6"
STR_libc_dash == <<108, 105, 98, 99, 45>>                            \* "libc-"
STR_dot_so == <<46, 115, 111>>                                     \* ".so"
STR_usr_lib == <<47, 117, 115, 114, 47, 108, 105, 98>>                \* "/usr/lib"

(* t in s *)
Contains(s, t) ==
    \E i \in 1..(Len(s) - Len(t) + 1) : SubSeq(s, i, i + Len(t) - 1) = t

StartsAt(s, i, t) == i + Len(t) - 1 <= Len(s) /\ SubSeq(s, i, i + Len(t) - 1) = t

IsDigit(c) == c \in 48..57

(* The position after the longest run of digits that starts at i *)
RECURSIVE SkipDigits(_, _)
SkipDigits(s, i) == IF i <= Len(s) /\ IsDigit(s[i]) THEN SkipDigits(s, i + 1) ELSE i

(* findall(r"libc-\d+\.\d+\.so", s) is not empty *)
FindallLibcVersioned(s) ==
    \E i \in 1..Len(s) :
        /\ StartsAt(s, i, STR_libc_dash)
        /\ LET j == SkipDigits(s, i + Len(STR_libc_dash))
           IN  /\ j > i + Len(STR_libc_dash)
               /\ StartsAt(s, j, <<46>>)
               /\ LET k == SkipDigits(s, j + 1)
                  IN  k > j + 1 /\ StartsAt(s, k, STR_dot_so)

(* None where a str is expected *)
NoneStr == <<NoneVal>>

(* A Python str (or None) used as a condition *)
Truthy(x) == x # NoneStr /\ x # <<>>

(* os.path.join(a, b) for two components; b = None raises TypeError *)
path_join(a, b) ==
    IF b = NoneStr THEN Raise("TypeError")
    ELSE IF b # <<>> /\ b[1] = 47 THEN [kind |-> "str", val |-> b]
    ELSE IF a = <<>> \/ a[Len(a)] = 47 THEN [kind |-> "str", val |-> a \o b]
    ELSE [kind |-> "str", val |-> a \o <<47>> \o b]

(* The whole function with clib_name = None.  The name found is NoneStr where
   the code leaves clib_name unassigned. *)
resolve_clib_from_binary(libraries, tags) ==
    LET subset == SelectSeq(libraries, LAMBDA lib : Contains(lib, STR_libc))
        exact == SelectSeq(subset, LAMBDA lib : lib = STR_libc_so_6)
        versioned == SelectSeq(exact, FindallLibcVersioned)
        found ==
            IF subset = <<>> THEN Raise("ValueError")
            ELSE IF Len(subset) > 1
            THEN IF exact = <<>>
                 THEN IF versioned = <<>> THEN Raise("ValueError")
                      ELSE [kind |-> "name", val |-> versioned[1]]
                 ELSE IF Len(exact) > 1 THEN Raise("ValueError")
                 ELSE [kind |-> "name", val |-> exact[1]]
            ELSE [kind |-> "name", val |-> NoneStr]
        clib_path ==
            IF Truthy(tags.rpath) THEN tags.rpath
            ELSE IF Truthy(tags.runpath) THEN tags.runpath
            ELSE IF Truthy(tags.ld_library_path) THEN tags.ld_library_path
            ELSE IF Truthy(tags.ld_preload) /\ Contains(tags.ld_preload, STR_libc)
                 THEN tags.ld_preload
            ELSE STR_usr_lib
        clib_pathname == path_join(clib_path, found.val)
    IN  IF ~tags.dynamic THEN Raise("NotImplementedError")
        ELSE IF found.kind = "raise" THEN found
        ELSE IF clib_pathname.kind = "raise" THEN clib_pathname
        ELSE [kind |-> "resolved", val |-> <<found.val, clib_pathname.val>>]

Resolve ==
    /\ rcRet.kind = "pending"
    /\ rcRet' = resolve_clib_from_binary(rcLibs, rcTags)
    /\ UNCHANGED <<imageVars, tableVars, callVars, slVars, chunkVars, archVars, rcLibs, rcTags, moreVars>>

----------------------------------------------------------------------------
(* Versions: the feature tests on clib.version and the VersionStr class *)

V_2_9 == <<50, 46, 57>>                            \* "2.9"

(* self.clib.version >= "2.26", >= "2.29", >= "2.32" on the str that
   identify_clib decoded *)
FlagsOf(v) ==
    [has_tcache |-> StrGE(v, V_2_26),
     has_tcache_key |-> StrGE(v, V_2_29),
     has_protect_ptr |-> StrGE(v, V_2_32)]

(* s.split('.') *)
RECURSIVE Split(_)
Split(s) ==
    IF \A i \in 1..Len(s) : s[i] # 46 THEN <<s>>
    ELSE LET i == CHOOSE j \in 1..Len(s) : s[j] = 46 /\ \A k \in 1..(j - 1) : s[k] # 46
         IN  <<SubSeq(s, 1, i - 1)>> \o Split(SubSeq(s, i + 1, Len(s)))

(* int(n) for a string of decimal digits *)
RECURSIVE ToInt(_)
ToInt(n) == IF n = <<>> THEN 0 ELSE 10 * ToInt(SubSeq(n, 1, Len(n) - 1)) + (n[Len(n)] - 48)

VersionNumbers(s) == LET parts == Split(s) IN [i \in 1..Len(parts) |-> ToInt(parts[i])]

Bool(b) == [kind |-> "bool", val |-> b]

(* the loop over zip(this_numbers, other_numbers) of __lt__, from position i *)
RECURSIVE LtLoop(_, _, _)
LtLoop(x, y, i) ==
    IF i > Len(x) \/ i > Len(y) THEN FALSE
    ELSE IF x[i] < y[i] THEN TRUE
    ELSE IF x[i] > y[i] THEN FALSE
    ELSE LtLoop(x, y, i + 1)

VersionStr_lt(a, b) == Bool(LtLoop(VersionNumbers(a), VersionNumbers(b), 1))

(* __gt__ is __lt__ with the two tests exchanged *)
VersionStr_gt(a, b) == Bool(LtLoop(VersionNumbers(b), VersionNumbers(a), 1))

(* __eq__ evaluates self == other, which calls __eq__ again; __ne__ likewise *)
VersionStr_eq(a, b) == Raise("RecursionError")

VersionStr_ne(a, b) == Raise("RecursionError")

VersionStr_le(a, b) == IF VersionStr_lt(a, b).val THEN Bool(TRUE) ELSE VersionStr_eq(a, b)

VersionStr_ge(a, b) == IF VersionStr_gt(a, b).val THEN Bool(TRUE) ELSE VersionStr_eq(a, b)

FeatureFlags ==
    /\ verRes' = [op |-> "flags", val |-> <<FlagsOf(version), FlagsOf(verB)>>]
    /\ UNCHANGED <<imageVars, tableVars, callVars, slVars, chunkVars, archVars, rcVars,
                   verB, lazyVars, viewVars>>

VersionCompare(op) ==
    /\ verRes' = [op |-> op,
                  val |-> CASE op = "lt" -> VersionStr_lt(version, verB)
                            [] op = "gt" -> VersionStr_gt(version, verB)
                            [] op = "eq" -> VersionStr_eq(version, verB)
                            [] op = "ne" -> VersionStr_ne(version, verB)
                            [] op = "le" -> VersionStr_le(version, verB)
                            [] op = "ge" -> VersionStr_ge(version, verB)]
    /\ UNCHANGED <<imageVars, tableVars, callVars, slVars, chunkVars, archVars, rcVars,
                   verB, lazyVars, viewVars>>

----------------------------------------------------------------------------
(* Ptmalloc2Allocator: lazy initialisation through __getattr__ *)

V_2_23 == <<50, 46, 50, 51>>                      \* "2.23"

(* set by Allocator.__init__, decorate_debugger *)
BaseAttrs == {"clib", "_debugger", "_is_initialized"}

(* the attributes _setup_accessors assigns *)
SetupAttrs ==
    {"heap_vmap", "MallocState", "main_arena", "chunk_at"}
        \cup (IF StrGE(version, V_2_26) THEN {"tcache"} ELSE {})

_is_heap_initialized_in_libc == lzHeap

_setup_accessors(o) ==
    [o EXCEPT !.attrs = @ \cup SetupAttrs, !.setups = @ + 1]

(* decorate_debugger, on a fresh instance *)
decorate_debugger ==
    LET o == [_is_initialized |-> FALSE, attrs |-> BaseAttrs, setups |-> 0]
    IN  IF _is_heap_initialized_in_libc
        THEN [_setup_accessors(o) EXCEPT !._is_initialized = TRUE]
        ELSE o

(* the is_initialized property: its value and the instance afterwards *)
is_initialized(o) ==
    IF ~o._is_initialized
    THEN IF ~_is_heap_initialized_in_libc
         THEN [val |-> FALSE, obj |-> o]
         ELSE [val |-> TRUE, obj |-> [_setup_accessors(o) EXCEPT !._is_initialized = TRUE]]
    ELSE [val |-> TRUE, obj |-> o]

(* __getattr__(name), called when the normal lookup of name has failed; the
   base classes define no __getattr__, so super().__getattr__ raises
   AttributeError *)
Allocator_getattr(o, name) ==
    LET init == is_initialized(o)
        allowed_attributes == {"clib"}
    IN  IF ~init.val /\ name \notin allowed_attributes
        THEN [val |-> RetNone, obj |-> init.obj]
        ELSE [val |-> Raise("AttributeError"), obj |-> init.obj]

(* heap.<name>: instance attributes and the property are found by the normal
   lookup; anything else goes to __getattr__ *)
AttributeAccess(o, name) ==
    IF name = "is_initialized"
    THEN LET r == is_initialized(o) IN [val |-> Bool(r.val), obj |-> r.obj]
    ELSE IF name \in o.attrs THEN [val |-> [kind |-> "attr", val |-> name], obj |-> o]
    ELSE Allocator_getattr(o, name)

GetAttr(name) ==
    /\ LET r == AttributeAccess(lzObj, name)
       IN  /\ lzObj' = r.obj
           /\ lzRet' = [name |-> name, val |-> r.val, heap |-> lzHeap,
                        was_initialized |-> lzObj._is_initialized,
                        ran_setup |-> r.obj.setups > lzObj.setups]
    /\ UNCHANGED <<imageVars, tableVars, callVars, slVars, chunkVars, archVars, rcVars,
                   verVars, lzHeap, viewVars>>

(* the target's first allocation creates the [heap] mapping *)
HeapAppears ==
    /\ ~lzHeap
    /\ lzHeap' = TRUE
    /\ UNCHANGED <<imageVars, tableVars, callVars, slVars, chunkVars, archVars, rcVars,
                   verVars, lzObj, lzRet, viewVars>>

----------------------------------------------------------------------------
(* ConstrainedMemoryView: a window of size bytes at base onto the debugger's
   memory.  An index is an int, a pair (start, length), a slice start:stop or
   something else; touched is the set of addresses the debugger was asked to
   read or write. *)

MaxViewSize == 3

IntIndex(i)          == [kind |-> "int",   a |-> i,     b |-> 0]
PairIndex(start, n)  == [kind |-> "tuple", a |-> start, b |-> n]
SliceIndex(lo, hi)   == [kind |-> "slice", a |-> lo,    b |-> hi]
OtherIndex           == [kind |-> "other", a |-> 0,     b |-> 0]

(* TRUE when _check_bounds raises ValueError *)
_check_bounds(view, address) == address < 0 \/ address > view.size

(* d.memory[address], d.memory[address, length], d.memory[start:stop]: the
   addresses the debugger reads; a write through d.memory[address] = value
   covers the bytes of value. *)
MemoryRange(address, length) == {address + k : k \in 0..(length - 1)}

ViewResult(r, t) == [ret |-> r, touched |-> t]

ViewBytes(n) == [kind |-> "bytes", val |-> n]

View_getitem(view, index) ==
    CASE index.kind = "int" ->
            IF _check_bounds(view, index.a)
            THEN ViewResult(Raise("ValueError"), {})
            ELSE ViewResult(ViewBytes(1), MemoryRange(view.base + index.a, 1))
      [] index.kind = "tuple" ->
            IF _check_bounds(view, index.a) \/ _check_bounds(view, index.a + index.b)
            THEN ViewResult(Raise("ValueError"), {})
            ELSE ViewResult(ViewBytes(index.b), MemoryRange(view.base + index.a, index.b))
      [] index.kind = "slice" ->
            IF _check_bounds(view, index.a) \/ _check_bounds(view, index.b)
            THEN ViewResult(Raise("ValueError"), {})
            ELSE IF index.b < index.a
                 THEN ViewResult(ViewBytes(0), {})
                 ELSE ViewResult(ViewBytes(index.b - index.a),
                                 MemoryRange(view.base + index.a, index.b - index.a))
      [] OTHER -> ViewResult(Raise("TypeError"), {})

View_setitem(view, index, value_len) ==
    CASE index.kind = "int" ->
            IF _check_bounds(view, index.a)
            THEN ViewResult(Raise("ValueError"), {})
            ELSE ViewResult(RetNone, MemoryRange(view.base + index.a, value_len))
      [] index.kind = "tuple" ->
            IF _check_bounds(view, index.a) \/ _check_bounds(view, index.a + index.b)
            THEN ViewResult(Raise("ValueError"), {})
            ELSE ViewResult(RetNone, MemoryRange(view.base + index.a, index.b))
      [] index.kind = "slice" ->
            IF _check_bounds(view, index.a) \/ _check_bounds(view, index.b)
            THEN ViewResult(Raise("ValueError"), {})
            ELSE IF index.b < index.a
                 THEN ViewResult(RetNone, {})
                 ELSE ViewResult(RetNone, MemoryRange(view.base + index.a, index.b - index.a))
      [] OTHER -> ViewResult(Raise("TypeError"), {})

ViewGetItem(index) ==
    /\ LET r == View_getitem(vwView, index)
       IN  /\ vwAccess' = [op |-> "get", index |-> index, touched |-> r.touched]
           /\ vwRet' = r.ret
    /\ UNCHANGED <<imageVars, tableVars, callVars, slVars, chunkVars, archVars, rcVars,
                   verVars, lazyVars, vwView>>

ViewSetItem(index, value_len) ==
    /\ LET r == View_setitem(vwView, index, value_len)
       IN  /\ vwAccess' = [op |-> "set", index |-> index, touched |-> r.touched]
           /\ vwRet' = r.ret
    /\ UNCHANGED <<imageVars, tableVars, callVars, slVars, chunkVars, archVars, rcVars,
                   verVars, lazyVars, vwView>>

----------------------------------------------------------------------------
(* Specification of the walkers *)

NoCall == [fn |-> "none", size |-> 0, value |-> NoneVal, index |-> NoneVal]

SlIdle ==
    /\ slPos = 0 /\ slPtr = 0 /\ slEnc = 0 /\ slDec = 0 /\ slStage = "off"

ChunkIdle ==
    /\ chMem = [a \in ChunkOffsets |-> 0]
    /\ chObj = NoChunk
    /\ chOp = [name |-> "none", arg |-> 0, before |-> IntWord(0)]

ArchIdle ==
    /\ elfHeader = [magic |-> TRUE, ei_class |-> 2, ei_osabi |-> 3, ei_abiversion |-> 0,
                    e_machine |-> <<62, 0>>]
    /\ archRes = [fastbin |-> Pending, clib |-> Pending]

RcIdle ==
    /\ rcLibs = <<>>
    /\ rcTags = [dynamic |-> TRUE, rpath |-> NoneStr, runpath |-> NoneStr,
                 ld_library_path |-> NoneStr, ld_preload |-> NoneStr]
    /\ rcRet = Pending

VerIdle ==
    /\ verB = V_2_35
    /\ verRes = [op |-> "none", val |-> Pending]

LazyIdle ==
    /\ lzHeap = FALSE
    /\ lzObj = [_is_initialized |-> FALSE, attrs |-> {}, setups |-> 0]
    /\ lzRet = [name |-> "none", val |-> Pending, heap |-> FALSE, was_initialized |-> FALSE,
                ran_setup |-> FALSE]

NoIndex == [kind |-> "none", a |-> 0, b |-> 0]

ViewIdle ==
    /\ vwView = [base |-> 0, size |-> 0]
    /\ vwAccess = [op |-> "none", index |-> NoIndex, touched |-> {}]
    /\ vwRet = Pending

MoreIdle == VerIdle /\ LazyIdle /\ ViewIdle

CallIdle ==
    /\ pc = "idle"
    /\ call = NoCall
    /\ curr_address = NoneVal
    /\ counter = 0
    /\ num_entries = 0
    /\ chain = <<>>
    /\ ret = Pending
    /\ accesses = {}
    /\ keyRes = NoKey

Init ==
    /\ version \in Versions
    /\ arch \in Archs
    /\ \E N \in 0..MaxChain : \E tail \in Tails(N) : \E c \in DeclaredCounts :
         /\ mem = Image(version, N, tail)
         /\ fastbinsY = [i \in 0..(NFASTBINS - 1) |-> IF i = 0 THEN HeadOf(N) ELSE NullAddr]
         /\ entries = [i \in 0..(TCACHE_MAX_BINS - 1) |-> IF i = 1 THEN HeadOf(N) ELSE NullAddr]
         /\ counts = [i \in 0..(TCACHE_MAX_BINS - 1) |-> IF i = 1 THEN c ELSE 0]
    /\ CallIdle
    /\ SlIdle
    /\ ChunkIdle
    /\ ArchIdle
    /\ RcIdle
    /\ MoreIdle

Next ==
    \/ \E size \in FbSizes : FastbinGetItem(size)
    \/ FastbinLoop
    \/ \E size \in TcSizes : TcacheGetItem(size)
    \/ TcacheGetLoop
    \/ \E size \in TcSizes : \E value \in SetHeads : TcacheSetItem(size, value)
    \/ TcacheSetLoop
    \/ \E i \in 1..MaxWalk : KeyAccess(i)

Spec == Init /\ [][Next]_vars

(* The interpreter always executes the next iteration of a running loop. *)
FairSpec == Spec /\ WF_vars(FastbinLoop) /\ WF_vars(TcacheGetLoop) /\ WF_vars(TcacheSetLoop)

----------------------------------------------------------------------------
(* Specification of protect_ptr / reveal_ptr as pure functions *)

SlPositions == {p * PAGE + o : p \in 0..MaxSlPage, o \in {0, 16}}
SlPointers == {k * 16 : k \in 0..MaxSlPtr} \cup {p * PAGE + 32 : p \in 1..MaxSlPage}

InitSL ==
    /\ version = V_2_35
    /\ arch = "amd64"
    /\ mem = Image(version, 0, NullAddr)
    /\ fastbinsY = [i \in 0..(NFASTBINS - 1) |-> NullAddr]
    /\ entries = [i \in 0..(TCACHE_MAX_BINS - 1) |-> NullAddr]
    /\ counts = [i \in 0..(TCACHE_MAX_BINS - 1) |-> 0]
    /\ CallIdle
    /\ slPos \in SlPositions
    /\ slPtr \in SlPointers
    /\ slEnc = 0
    /\ slDec = 0
    /\ slStage = "in"
    /\ ChunkIdle
    /\ ArchIdle
    /\ RcIdle
    /\ MoreIdle

SlProtect ==
    /\ slStage = "in"
    /\ slEnc' = protect_ptr(slPos, slPtr)
    /\ slStage' = "protected"
    /\ UNCHANGED <<restVars, imageVars, tableVars, callVars, slPos, slPtr, slDec>>

SlReveal ==
    /\ slStage = "protected"
    /\ slDec' = reveal_ptr(slPos, slEnc)
    /\ slStage' = "revealed"
    /\ UNCHANGED <<restVars, imageVars, tableVars, callVars, slPos, slPtr, slEnc>>

NextSL == SlProtect \/ SlReveal

SpecSL == InitSL /\ [][NextSL]_vars

----------------------------------------------------------------------------
(* Specification of the chunk header codec *)

(* The walkers' state while another component is exercised *)
TablesIdle ==
    /\ mem = Image(V_2_35, 0, NullAddr)
    /\ fastbinsY = [i \in 0..(NFASTBINS - 1) |-> NullAddr]
    /\ entries = [i \in 0..(TCACHE_MAX_BINS - 1) |-> NullAddr]
    /\ counts = [i \in 0..(TCACHE_MAX_BINS - 1) |-> 0]
    /\ CallIdle
    /\ SlIdle

WalkersIdle ==
    /\ version = V_2_35
    /\ TablesIdle

PrevSizes == {0, 48}

(* size | flags words a heap can hold: sizes are multiples of 2 * SIZE_SZ and at
   least the minimum chunk size of the architecture; any of the three flag bits
   may be set *)
HeaderWords(a) ==
    IF a = "amd64" THEN {32, 33, 34, 35, 37, 39, 49}
    ELSE {16, 17, 25, 27}

(* The bytes around a chunk.  On amd64 the two header words are 8 bytes each; on
   i386 they are 4 bytes each and the 8 bytes before them belong to the chunk
   below. *)
ChunkImage(a, prev, word) ==
    [o \in ChunkOffsets |->
        IF a = "amd64"
        THEN CASE o = 0 - 16 -> prev
               [] o = 0 - 8 -> word
               [] o \in {0 - 12, 0 - 4} -> 0
               [] OTHER -> 100 + o \div CELL
        ELSE CASE o = 0 - 8 -> prev
               [] o = 0 - 4 -> word
               [] OTHER -> 100 + o \div CELL]

(* 0x20, 0x28, 0x30: the setter takes any int; 0x28 is not a chunk size on amd64 *)
NewSizes == {32, 40, 48}
NewPrevSizes == {0, 64}
NewContents == {<<7, 7>>, <<9, 9, 9, 9>>}

InitChunk ==
    /\ arch \in Archs
    /\ WalkersIdle
    /\ ArchIdle
    /\ RcIdle
    /\ MoreIdle
    /\ \E prev \in PrevSizes : \E word \in HeaderWords(arch) :
         chMem = ChunkImage(arch, prev, word)
    /\ chObj = NoChunk
    /\ chOp = [name |-> "none", arg |-> 0, before |-> IntWord(0)]

NextChunk ==
    \/ ChunkAt
    \/ \E value \in NewSizes : SetSize(value)
    \/ \E value \in NewPrevSizes : SetPrevSize(value)
    \/ \E value \in BOOLEAN : SetIsAllocatedArena(value)
    \/ \E value \in BOOLEAN : SetIsMmapped(value)
    \/ \E value \in BOOLEAN : SetIsPrevInuse(value)
    \/ \E value \in NewContents : SetContent(value)

SpecChunk == InitChunk /\ [][NextChunk]_vars

----------------------------------------------------------------------------
(* Specification of architecture resolution *)

DebuggerArchs == {"amd64", "aarch64", "i386", "arm"}

(* EM_386, EM_X86_64, EM_AARCH64, EM_ARM as little-endian byte pairs *)
Machines == {<<3, 0>>, <<62, 0>>, <<183, 0>>, <<40, 0>>}

ElfHeaders ==
    [magic : BOOLEAN, ei_class : {1, 2}, ei_osabi : {0, 3}, ei_abiversion : {0},
     e_machine : Machines]

InitArch ==
    /\ arch \in DebuggerArchs
    /\ WalkersIdle
    /\ ChunkIdle
    /\ RcIdle
    /\ MoreIdle
    /\ elfHeader \in ElfHeaders
    /\ archRes = [fastbin |-> Pending, clib |-> Pending]

NextArch == FastbinInit \/ ClibInit

SpecArch == InitArch /\ [][NextArch]_vars

----------------------------------------------------------------------------
(* Specification of resolve_clib_from_binary *)

MaxNeeded == 3

(* "libc.so.6", "libc-2.31.so", "libcrypto.so.3", "libm.so.6" *)
LibNames ==
    {STR_libc_so_6,
     <<108, 105, 98, 99, 45, 50, 46, 51, 49, 46, 115, 111>>,
     <<108, 105, 98, 99, 114, 121, 112, 116, 111, 46, 115, 111, 46, 51>>,
     <<108, 105, 98, 109, 46, 115, 111, 46, 54>>}

NeededLists == UNION {[1..n -> LibNames] : n \in 0..MaxNeeded}

(* "/r", "/u", "/l"; LD_PRELOAD "/p/libc.so.6" or "/p/x.so" *)
RPaths == {NoneStr, <<47, 114>>}
RunPaths == {NoneStr, <<47, 117>>}
LdLibraryPaths == {NoneStr, <<47, 108>>}
LdPreloads == {NoneStr, <<47, 112, 47, 108, 105, 98, 99, 46, 115, 111, 46, 54>>, <<47, 112, 47, 120, 46, 115, 111>>}

InitResolve ==
    /\ arch = "amd64"
    /\ WalkersIdle
    /\ ChunkIdle
    /\ ArchIdle
    /\ MoreIdle
    /\ rcLibs \in NeededLists
    /\ rcTags \in [dynamic : BOOLEAN, rpath : RPaths, runpath : RunPaths,
                   ld_library_path : LdLibraryPaths, ld_preload : LdPreloads]
    /\ rcRet = Pending

NextResolve == Resolve

SpecResolve == InitResolve /\ [][NextResolve]_vars

----------------------------------------------------------------------------
(* Specification of the version tests *)

(* "2.9" and the releases around the three feature thresholds *)
VersionStrings == {V_2_9, V_2_26, V_2_27, V_2_29, V_2_31, V_2_32, V_2_35}

CompareOps == {"lt", "gt", "eq", "ne", "le", "ge"}

InitVer ==
    /\ arch = "amd64"
    /\ version \in VersionStrings
    /\ TablesIdle
    /\ ChunkIdle
    /\ ArchIdle
    /\ RcIdle
    /\ LazyIdle
    /\ ViewIdle
    /\ verB \in VersionStrings
    /\ verRes = [op |-> "none", val |-> Pending]

NextVer ==
    \/ FeatureFlags
    \/ \E op \in CompareOps : VersionCompare(op)

SpecVer == InitVer /\ [][NextVer]_vars

----------------------------------------------------------------------------
(* Specification of the allocator's lazy initialisation *)

LazyVersions == {V_2_23, V_2_27, V_2_31, V_2_35}

AttrNames ==
    {"clib", "tcache", "chunk_at", "main_arena", "heap_vmap", "MallocState", "is_initialized",
     "fastbin"}

InitLazy ==
    /\ arch = "amd64"
    /\ version \in LazyVersions
    /\ TablesIdle
    /\ ChunkIdle
    /\ ArchIdle
    /\ RcIdle
    /\ VerIdle
    /\ ViewIdle
    /\ lzHeap \in BOOLEAN
    /\ lzObj = decorate_debugger
    /\ lzRet = [name |-> "none", val |-> Pending, heap |-> FALSE, was_initialized |-> FALSE,
                ran_setup |-> FALSE]

NextLazy ==
    \/ HeapAppears
    \/ \E name \in AttrNames : GetAttr(name)

SpecLazy == InitLazy /\ [][NextLazy]_vars

----------------------------------------------------------------------------
(* Specification of the memory view *)

ViewOffsets == (-1)..(MaxViewSize + 1)

ViewIndexes ==
    {IntIndex(i) : i \in ViewOffsets}
        \cup {PairIndex(i, n) : i \in ViewOffsets, n \in 0..(MaxViewSize + 1)}
        \cup {SliceIndex(i, j) : i \in ViewOffsets, j \in ViewOffsets}
        \cup {OtherIndex}

InitView ==
    /\ arch = "amd64"
    /\ version = V_2_35
    /\ TablesIdle
    /\ ChunkIdle
    /\ ArchIdle
    /\ RcIdle
    /\ VerIdle
    /\ LazyIdle
    /\ vwView \in [base : {16, 64}, size : 1..MaxViewSize]
    /\ vwAccess = [op |-> "none", index |-> NoIndex, touched |-> {}]
    /\ vwRet = Pending

NextView ==
    \/ \E index \in ViewIndexes : ViewGetItem(index)
    \/ \E index \in ViewIndexes : \E value_len \in {1, 2} : ViewSetItem(index, value_len)

SpecView == InitView /\ [][NextView]_vars

----------------------------------------------------------------------------
(* Specification of the tcache walkers over sizes of every kind *)

(* 0x0 (index -1), 0x8, 0x20, 0x410 (index 64) *)
AnySizes == {0, 8, 32, 1040}

NextAnySize ==
    \/ \E size \in AnySizes : TcacheGetItem(size)
    \/ TcacheGetLoop
    \/ \E size \in AnySizes : \E value \in SetHeads : TcacheSetItem(size, value)
    \/ TcacheSetLoop

SpecAnySize == Init /\ [][NextAnySize]_vars

----------------------------------------------------------------------------
(* What an image holds, read independently of the walkers *)

ResolvedNext(a) ==
    IF StrGE(version, V_2_32) THEN xor(a \div PAGE, ReadWord(a)) ELSE ReadWord(a)

(* the addresses linked from `a`, up to the first unmapped one, at most `fuel` of them *)
RECURSIVE LinkedFrom(_, _)
LinkedFrom(a, fuel) ==
    IF fuel = 0 \/ ~Mapped(a) THEN <<>>
    ELSE <<a>> \o LinkedFrom(ResolvedNext(a), fuel - 1)

EndsUnmapped(a) == Len(LinkedFrom(a, MaxChain + 1)) <= MaxChain

Min(a, b) == IF a < b THEN a ELSE b

Clamp(n, lo, hi) == IF n < lo THEN lo ELSE IF n > hi THEN hi ELSE n

----------------------------------------------------------------------------
(* C1: FastbinWalker.walk terminates for every memory image and size class,
   also when the next links form a cycle among mapped addresses: a walk
   that has entered its loop eventually returns or raises.                 *)
C1_FastbinWalkTerminates == (pc = "fastbin_loop") ~> (pc = "returned")

(* C2: when the bin head starts a chain of N entries whose last next address
   is unmapped, walk returns the head entry (address = fastbinsY[index]),
   from which the next links visit exactly the N entries in link order;
   for N = 0 it returns None.                                              *)
C2_FastbinWalkReturnsHead ==
    (pc = "returned" /\ call.fn = "fastbin" /\ call.index \in 0..(NFASTBINS - 1)
        /\ EndsUnmapped(fastbinsY[call.index]))
    => LET expected == LinkedFrom(fastbinsY[call.index], MaxChain + 1)
       IN  IF expected = <<>>
           THEN ret = RetNone
           ELSE /\ ret.kind = "entry"
                /\ ret.val = 1
                /\ Len(chain) = Len(expected)
                /\ \A i \in 1..Len(chain) : chain[i].address = expected[i]

(* C3: get(size) returns the head TcacheEntry (address = entries[index])
   linked to exactly min(counts[index], L) entries in link order, L being
   the number of entries before an unmapped next address; it returns None
   when counts[index] = 0.                                                 *)
C3_GetReturnsHeadChain ==
    (pc = "returned" /\ call.fn = "get" /\ call.size >= MINSIZE
        /\ EndsUnmapped(entries[call.index])
        /\ (counts[call.index] > 0 => Mapped(entries[call.index])))
    => LET expected == LinkedFrom(entries[call.index], MaxChain + 1)
           n == Min(counts[call.index], Len(expected))
       IN  IF counts[call.index] = 0
           THEN ret = RetNone
           ELSE /\ ret.kind = "entry"
                /\ ret.val = 1
                /\ Len(chain) = n
                /\ \A i \in 1..Len(chain) : chain[i].address = expected[i]

(* C4: a set(size, head) that returns has stored clamp(n, 1, 7) in
   counts[index], n being the number of entries linked from head up to an
   unmapped next address.                                                  *)
C4_SetStoresClampedCount ==
    (pc = "returned" /\ call.fn = "set" /\ ret = RetNone)
    => counts[call.index] = Clamp(Len(LinkedFrom(call.value, MaxChain + 1)), 1, 7)

(* C5: TcacheWalker.set terminates for every memory image, also when the
   chain from head_address is cyclic: a set that has entered its counting
   loop eventually returns or raises.                                      *)
C5_SetTerminates == (pc = "set_loop") ~> (pc = "returned")

(* C6: reveal(a, protect(a, p)) = p for all storage addresses a and
   pointers p.                                                             *)
C6_RevealProtectInvolution == (slStage = "revealed") => (slDec = slPtr)

C6_Witness ==
    /\ slStage = "revealed"
    /\ slPos \div PAGE # 0
    /\ slPtr # 0
    /\ slEnc # slPtr
    /\ slDec = slPtr

(* C7: walk(size) whose index (size >> shift) - 2 lies outside
   [0, NFASTBINS) fails, and no bin head is read for that index (any error
   raised before the table is read is accepted as InvalidSizeClass).       *)
C7_FastbinIndexValidated ==
    (call.fn = "fastbin" /\ call.index \notin 0..(NFASTBINS - 1))
    => (pc = "returned" /\ ret.kind = "raise" /\ accesses = {})

(* C8: set(size, head) with size < MINSIZE ends in an error and has written
   no counts[] or entries[] slot (any error is accepted as InvalidSize).   *)
C8_SetSmallSizeWritesNothing ==
    (pc = "returned" /\ call.fn = "set" /\ call.size < MINSIZE)
    => (ret.kind = "raise" /\ accesses = {})

(* C9: get(size) with size < MINSIZE fails with ValueError (InvalidSize)
   before any read of counts[] or entries[].                               *)
C9_GetSmallSizeFailsBeforeReading ==
    (call.fn = "get" /\ call.size < MINSIZE)
    => (pc = "returned" /\ ret = Raise("ValueError") /\ accesses = {} /\ chain = <<>>)

C9_Witness ==
    /\ call.fn = "get"
    /\ call.size < MINSIZE
    /\ ret = Raise("ValueError")
    /\ counts[1] > 0
    /\ Mapped(entries[1])

(* C10: accessing key on an entry built by get raises NotImplementedError
   (FeatureUnavailable) when the version has no tcache key, and otherwise
   returns the key word stored after the entry's next field, also when
   that word is 0.                                                         *)
C10_KeyGatedByVersion ==
    (keyRes.kind # "none")
    => LET e == chain[keyRes.entry]
       IN  IF StrLess(version, V_2_29)
           THEN keyRes.kind = "raise" /\ keyRes.val = "NotImplementedError"
           ELSE keyRes.kind = "value" /\ keyRes.val = ReadWord(e.address + WORD)

C10_Witness ==
    /\ keyRes.kind = "raise"
    /\ StrLess(version, V_2_29)
    /\ ReadWord(chain[keyRes.entry].address + WORD) # 0

C10_ZeroKeyReturned ==
    /\ keyRes.kind = "value"
    /\ keyRes.val = 0
    /\ ~StrLess(version, V_2_29)

----------------------------------------------------------------------------
RECURSIVE Shr(_, _)
Shr(x, n) == IF n = 0 THEN x ELSE Shr(x \div 2, n - 1)

(* C15: the fastbin index is (size >> shift) - 2, shift being 4 when the
   word size is 8 and 3 otherwise: with word size 8 index(32) = 0 and
   index(48) = 1, with word size 4 index(16) = 0.                          *)
C15_FastbinIndexFormula ==
    (call.fn = "fastbin")
    => /\ call.index = Shr(call.size, IF arch \in {"amd64", "aarch64"} THEN 4 ELSE 3) - 2
       /\ (arch = "amd64" /\ call.size = 32) => call.index = 0
       /\ (arch = "amd64" /\ call.size = 48) => call.index = 1
       /\ (arch = "i386" /\ call.size = 16) => call.index = 0

C15_Witness ==
    /\ call.fn = "fastbin"
    /\ arch = "i386"
    /\ call.size = 16
    /\ call.index = 0
    /\ pc = "returned"

(* C16 as stated: the tcache index is (size - min_chunk_size + align - 1)
   div align with align = 2 * word_size, for word size 4 and 8.            *)
C16_TcacheIndexByWordSize ==
    (call.fn \in {"get", "set"} /\ call.size >= 16)
    => LET align == 2 * (IF arch \in {"amd64", "aarch64"} THEN 8 ELSE 4)
       IN  call.index = (call.size - 16 + align - 1) \div align

(* C16 as amended: the tcache index is (size - 0x10 + 0x10 - 1) div 0x10
   for every word size; index(0x20) = 1 and index(0x40) = 3.               *)
C16_TcacheIndexFormula ==
    (call.fn \in {"get", "set"} /\ call.size >= 16)
    => /\ call.index = (call.size - 1) \div 16
       /\ call.size = 32 => call.index = 1
       /\ call.size = 64 => call.index = 3

C16_Witness ==
    /\ call.fn = "get"
    /\ arch = "i386"
    /\ call.size = 64
    /\ call.index = 3
    /\ accesses = {<<"entries", 3, "r">>, <<"counts", 3, "r">>}

(* C17: walk and get write nothing: no step of a walk or get call changes
   target memory, the bin heads, counts[] or entries[]; and the entries a
   walk or get builds are those the image links from the bin head, so that
   two calls on unchanged memory build the same chain.                     *)
C17_WalkAndGetWriteNothing ==
    [][(call'.fn \in {"fastbin", "get"})
        => (mem' = mem /\ fastbinsY' = fastbinsY /\ counts' = counts /\ entries' = entries)]_vars

C17_ChainFollowsImage ==
    /\ (call.fn = "fastbin" /\ call.index \in 0..(NFASTBINS - 1))
         => \A i \in 1..Len(chain) :
              chain[i].address = LinkedFrom(fastbinsY[call.index], MaxWalk)[i]
    /\ (call.fn = "get")
         => \A i \in 1..Len(chain) :
              chain[i].address = LinkedFrom(entries[call.index], MaxWalk)[i]

C17_WalkAndGetSideEffectFree == C17_WalkAndGetWriteNothing /\ []C17_ChainFollowsImage

C17_Witness ==
    /\ pc = "returned"
    /\ call.fn = "get"
    /\ Len(chain) >= 1
    /\ counts[call.index] > 0
    /\ accesses # {}

(* C20: every entry visited by walk and get resolves its next address as
   (storage address >> 12) XOR raw_next when the version has safe linking
   and as raw_next itself otherwise; a FastbinEntry holds both raw_next as
   stored and next_value as resolved.                                      *)
C20_NextResolvedBySafeLink ==
    /\ (call.fn = "fastbin")
         => \A i \in 1..Len(chain) :
              /\ chain[i].raw_next = ReadWord(chain[i].address)
              /\ chain[i].next_value =
                   IF StrLess(version, V_2_32) THEN chain[i].raw_next
                   ELSE xor(Shr(chain[i].address, 12), chain[i].raw_next)
    /\ (call.fn = "get")
         => \A i \in 1..Len(chain) :
              LET raw == ReadWord(chain[i].address)
                  resolved == IF StrLess(version, V_2_32) THEN raw
                              ELSE xor(Shr(chain[i].address, 12), raw)
              IN  chain[i].next = IF Mapped(resolved) THEN resolved ELSE NoneVal

C20_Witness ==
    /\ call.fn = "fastbin"
    /\ Len(chain) >= 2
    /\ ~StrLess(version, V_2_32)
    /\ chain[1].raw_next # chain[1].next_value
    /\ chain[1].next_value = chain[2].address

----------------------------------------------------------------------------
(* Chunk header codec *)

SizeWord == Word8(chMem, 0 - WORD)

(* C11: for every stored header word and every new size that is a multiple of
   2 * word_size, after set_size(new) a fresh decode at the same address
   returns size = new with prev_inuse and the bit-1 flag as they were, and the
   low three bits of the stored size word are the same as before the call. *)
C11_SetSizeKeepsFlagBits ==
    (chOp.name = "set_size" /\ chOp.arg % (2 * SIZE_SZ) = 0) =>
        /\ \A f \in chunk_init(chMem) :
             /\ f.kind = "chunk"
             /\ f._size = IntWord(chOp.arg)
             /\ f._is_prev_inuse = TestBit(chOp.before, 1)
             /\ f._is_mmapped = TestBit(chOp.before, 2)
        /\ SizeWord[1] % 8 = chOp.before[1] % 8

(* C12: is_mmapped and is_allocated_arena are two names of one physical bit:
   after any sequence of setter calls both accessors return the same value and
   bit 1 of the stored size word equals it. *)
C12_FlagNamesShareOneBit ==
    (chObj.kind = "chunk") =>
        /\ chObj._is_mmapped = chObj._is_allocated_arena
        /\ TestBit(SizeWord, 2) = chObj._is_mmapped

(* C13: every mutator writes through before it returns: after any sequence of
   mutator calls a fresh decode at the same address yields the prev_size, size
   and flag values the mutated object holds, and its content when the content's
   length is size - 2 * word_size. *)
C13_MutatorsWriteThrough ==
    (chObj.kind = "chunk") =>
        \A f \in chunk_init(chMem) :
            /\ f.kind = "chunk"
            /\ f._prev_size = chObj._prev_size
            /\ f._size = chObj._size
            /\ f._is_prev_inuse = chObj._is_prev_inuse
            /\ f._is_mmapped = chObj._is_mmapped
            /\ f._is_allocated_arena = chObj._is_allocated_arena
            /\ (Len(chObj._content) * CELL = chObj._size[1] - 2 * SIZE_SZ
                    => f._content = chObj._content)

(* C14: decode reads the 2 * word_size bytes before the content address, for
   word_size 4 and 8: prev_size is the first word; size is the second word with
   its low three bits masked off, prev_inuse its bit 0 and the
   mmapped / non-main-arena flag its bit 1; the content is the
   size - 2 * word_size bytes at the content address. *)
C14_DecodeByWordSize ==
    (chOp.name = "decode") =>
        LET word(o) == IF SIZE_SZ = 8 THEN Word8(chMem, o) ELSE IntWord(chMem[o])
            prev == word(0 - 2 * SIZE_SZ)
            spf == word(0 - SIZE_SZ)
            size == MaskFlags(spf)
            n == (size[1] - 2 * SIZE_SZ) \div CELL
        IN  /\ chObj.kind = "chunk"
            /\ chObj._prev_size = prev
            /\ chObj._size = size
            /\ chObj._is_prev_inuse = TestBit(spf, 1)
            /\ chObj._is_mmapped = TestBit(spf, 2)
            /\ chObj._is_allocated_arena = TestBit(spf, 2)
            /\ chObj._content = [k \in 1..n |-> chMem[CELL * (k - 1)]]

----------------------------------------------------------------------------
(* Architecture resolution *)

SupportedArchs == {"amd64", "aarch64", "i386"}

WordSizeOf(a) == IF a = "i386" THEN 4 ELSE 8

(* The architecture an ELF machine code stands for *)
MachineArch(m) ==
    IF m = <<3, 0>> THEN "i386"
    ELSE IF m = <<62, 0>> THEN "amd64"
    ELSE IF m = <<183, 0>> THEN "aarch64"
    ELSE "other"

(* C18: resolution fails for every architecture outside {amd64, aarch64, i386}
   and never falls back to a default word size; every supported architecture,
   aarch64 included, resolves to its word size 8, 8, 4. *)
C18_UnsupportedArchitectureRejected ==
    /\ (archRes.fastbin.kind # "pending") =>
          IF arch \in SupportedArchs
          THEN archRes.fastbin.kind = "fastbin"
               /\ archRes.fastbin.val.SIZE_SZ = WordSizeOf(arch)
          ELSE archRes.fastbin.kind = "raise"
    /\ (archRes.clib.kind # "pending"
        /\ elfHeader.magic /\ elfHeader.ei_osabi = 3 /\ elfHeader.ei_abiversion = 0) =>
          LET a == MachineArch(elfHeader.e_machine)
          IN  IF a \in SupportedArchs
              THEN /\ archRes.clib.kind = "clib"
                   /\ archRes.clib.val.arch = a
                   /\ (((elfHeader.ei_class = 2) <=> (WordSizeOf(a) = 8))
                          => archRes.clib.val.word_size = WordSizeOf(a))
              ELSE archRes.clib.kind = "raise"

----------------------------------------------------------------------------
(* Library resolution *)

LibcEntries == SelectSeq(rcLibs, LAMBDA lib : Contains(lib, STR_libc))

EndsWith(s, t) == Len(t) <= Len(s) /\ SubSeq(s, Len(s) - Len(t) + 1, Len(s)) = t

(* C19: with no clib_name given, for a dynamically linked binary whose
   DT_NEEDED list holds exactly one entry containing "libc" the call returns
   that entry and a path ending in it; when several entries contain "libc" and
   none is exactly "libc.so.6", an entry matching libc-<major>.<minor>.so is
   returned. *)
C19_LibcIdentifiedAutomatically ==
    (rcRet.kind # "pending" /\ rcTags.dynamic) =>
        /\ (Len(LibcEntries) = 1) =>
              /\ rcRet.kind = "resolved"
              /\ rcRet.val[1] = LibcEntries[1]
              /\ EndsWith(rcRet.val[2], LibcEntries[1])
        /\ (/\ Len(LibcEntries) > 1
            /\ \A i \in 1..Len(LibcEntries) : LibcEntries[i] # STR_libc_so_6
            /\ \E i \in 1..Len(LibcEntries) : FindallLibcVersioned(LibcEntries[i])) =>
              /\ rcRet.kind = "resolved"
              /\ FindallLibcVersioned(rcRet.val[1])

----------------------------------------------------------------------------
(* Tcache set and get *)

(* C21: set(size, head) writes into entries[index] the value
   (storage >> 12) XOR head when the version has safe-linking, with
   storage = entries_base + index * word_size, and head unmodified otherwise;
   no other entries[] slot is modified. *)
C21_SetWritesProtectedHead ==
    [][(pc = "set_loop" /\ pc' = "returned" /\ ret' = RetNone) =>
          LET storage_address == entries_base + call.index * SIZE_SZ
              written == IF StrGE(version, V_2_32)
                         THEN xor(Shr(storage_address, 12), call.value)
                         ELSE call.value
          IN  entries' = [entries EXCEPT ![call.index] = written]]_vars

C21_Witness ==
    /\ pc = "returned" /\ call.fn = "set" /\ ret = RetNone
    /\ StrGE(version, V_2_32)
    /\ call.value # NullAddr
    /\ entries[call.index] # call.value
    /\ entries[call.index] = xor(Shr(entries_base + call.index * SIZE_SZ, 12), call.value)

(* The last step of the finished walk was a failed probe of the next address *)
ProbeFaultEndedWalk ==
    /\ pc = "returned"
    /\ chain # <<>>
    /\ Len(chain) < MaxWalk
    /\ \/ call.fn = "fastbin" /\ ~Mapped(chain[Len(chain)].next_value)
       \/ call.fn = "get" /\ chain[Len(chain)].next = NoneVal

(* The walk stopped at the read of an entry that is not mapped *)
EntryReadFaulted ==
    /\ pc = "returned"
    /\ ~Mapped(curr_address)
    /\ \/ call.fn = "fastbin" /\ curr_address # NoneVal /\ chain = <<>>
       \/ call.fn = "get" /\ curr_address # NoneVal /\ counter < num_entries

(* C22: in walk and get a fault of the one-byte probe of the resolved next
   address is never propagated: the walk ends with the current entry's next
   absent and returns the chain built so far; a fault on any other read
   propagates to the caller. *)
C22_ProbeFaultEndsWalk ==
    /\ ProbeFaultEndedWalk => (ret.kind = "entry" /\ ret.val = 1)
    /\ EntryReadFaulted => (ret.kind = "raise" /\ ret.val = "MemoryError")

----------------------------------------------------------------------------
(* Chunk size invariant *)

(* C23: in every reachable state a chunk header's size field is a multiple of
   2 * word_size, right after the decode of any stored header word and after
   any call to set_size. *)
C23_SizeMultipleOfTwoWords ==
    (chObj.kind = "chunk") =>
        /\ chObj._size[2] = 0
        /\ chObj._size[1] % (2 * SIZE_SZ) = 0

----------------------------------------------------------------------------
(* Versions *)

(* numeric component order of two dotted versions *)
NumLess(a, b) == StrLess(VersionNumbers(a), VersionNumbers(b))

NumGE(a, b) == ~NumLess(a, b)

(* C24: feature flags are monotonic in the version: for v <= w in numeric
   component order each of has_tcache, has_tcache_key, has_safe_linking at v
   implies it at w, the features being present exactly from 2.26, 2.29 and
   2.32; 2.9 has none of them and 2.32 has all. *)
C24_FlagsMonotonicInVersion ==
    (verRes.op = "flags") =>
        LET fv == verRes.val[1]
            fw == verRes.val[2]
        IN  /\ fv.has_tcache = NumGE(version, V_2_26)
            /\ fv.has_tcache_key = NumGE(version, V_2_29)
            /\ fv.has_protect_ptr = NumGE(version, V_2_32)
            /\ NumGE(verB, version) =>
                  /\ fv.has_tcache => fw.has_tcache
                  /\ fv.has_tcache_key => fw.has_tcache_key
                  /\ fv.has_protect_ptr => fw.has_protect_ptr

(* C28: VersionStr comparisons terminate and agree with the numeric
   component-wise order of dotted versions: a >= b is true exactly when not
   a < b (so "2.32" >= "2.32" is true), a == b exactly when neither is less,
   and "2.9" < "2.32". *)
C28_VersionStrComparesNumerically ==
    (verRes.op \in CompareOps) =>
        /\ verRes.val.kind = "bool"
        /\ verRes.val.val =
              CASE verRes.op = "lt" -> NumLess(version, verB)
                [] verRes.op = "gt" -> NumLess(verB, version)
                [] verRes.op = "eq" -> (~NumLess(version, verB) /\ ~NumLess(verB, version))
                [] verRes.op = "ne" -> (NumLess(version, verB) \/ NumLess(verB, version))
                [] verRes.op = "le" -> ~NumLess(verB, version)
                [] verRes.op = "ge" -> ~NumLess(version, verB)

----------------------------------------------------------------------------
(* Lazy initialisation *)

Accessors == {"tcache", "chunk_at", "main_arena"}

(* C25: while the target has no [heap] mapping, accessing an accessor other
   than clib yields None and leaves the allocator uninitialised; the first
   access to an accessor after the mapping appears runs _setup_accessors and
   returns the initialised accessor; later accesses do not run
   _setup_accessors again. *)
C25_LazyInitOnFirstAccess ==
    (lzRet.name \in Accessors) =>
        /\ ~lzRet.heap =>
              (lzRet.val.kind = "None" /\ ~lzRet.ran_setup /\ ~lzObj._is_initialized)
        /\ (lzRet.heap /\ ~lzRet.was_initialized /\ lzRet.name \in SetupAttrs) =>
              /\ lzRet.ran_setup
              /\ lzRet.val.kind = "attr"
              /\ lzRet.val.val = lzRet.name
        /\ lzRet.was_initialized => ~lzRet.ran_setup

----------------------------------------------------------------------------
(* Tcache set followed by get *)

GetRightAfterSet ==
    /\ call.fn = "get"
    /\ call.size >= MINSIZE
    /\ call.after.fn = "set"
    /\ call.after.ok
    /\ call.after.index = call.index
    /\ Len(LinkedFrom(call.after.value, MaxChain + 1)) >= 1

(* C26: for either value of has_safe_linking, after set(size, h) has succeeded
   on a chain of n >= 1 mapped entries starting at h, an immediately following
   get(size) starts its walk at h and visits the same min(n, stored count)
   entries that set counted. *)
C26_SetThenGetRoundTrips ==
    GetRightAfterSet =>
        LET h == call.after.value
            counted == LinkedFrom(h, MaxChain + 1)
            n == Min(Len(counted), counts[call.index])
        IN  /\ (pc = "get_loop" /\ counter = 0) => curr_address = h
            /\ (pc = "returned") =>
                  /\ Len(chain) = n
                  /\ \A i \in 1..n : chain[i].address = counted[i]

----------------------------------------------------------------------------
(* Tcache table bounds *)

(* C27: every read or write of the tcache tables made by get and set uses an
   index in [0, 64); no size, small, producing a negative index, or larger
   than the biggest tcache class, causes an access outside the 64 slots or to
   the slot of another size class. *)
C27_TableIndexInBounds ==
    (call.fn \in {"get", "set"}) =>
        \A a \in accesses :
            /\ a[2] \in 0..(TCACHE_MAX_BINS - 1)
            /\ call.size >= MINSIZE
            /\ a[2] = (call.size - MINSIZE + MALLOC_ALIGNMENT - 1) \div MALLOC_ALIGNMENT

----------------------------------------------------------------------------
(* Tcache set and read faults *)

(* C29: set is all-or-nothing on a read fault: a step of set that is not its
   normal return, the step on which reading an entry faults included, leaves
   counts and entries as they were, so a set that ends with the fault has
   modified neither table. *)
C29_SetAllOrNothingOnFault ==
    [][((pc = "set_loop" \/ pc' = "set_loop") /\ ~(pc' = "returned" /\ ret'.kind = "None"))
          => UNCHANGED <<counts, entries>>]_vars

C29_Witness ==
    /\ call.fn = "set"
    /\ pc = "returned"
    /\ ret = Raise("MemoryError")
    /\ call.index \in 0..(TCACHE_MAX_BINS - 1)
    /\ counts[call.index] > 0
    /\ entries[call.index] # call.value

----------------------------------------------------------------------------
(* Memory view bounds *)

(* offsets from base that an index asks for *)
Requested(index) ==
    CASE index.kind = "int"   -> {index.a}
      [] index.kind = "tuple" -> {index.a + k : k \in 0..(index.b - 1)}
      [] index.kind = "slice" -> {k \in ViewOffsets : index.a <= k /\ k < index.b}
      [] OTHER -> {}

InView(view) == {view.base + k : k \in 0..(view.size - 1)}

(* C30: every debugger read or write issued through a view (base, size)
   touches only addresses in [base, base + size), and an int index, pair or
   slice reaching outside that range raises ValueError before any memory
   access is made. *)
C30_ViewAccessStaysInside ==
    (vwAccess.op # "none") =>
        /\ vwAccess.touched \subseteq InView(vwView)
        /\ (~(Requested(vwAccess.index) \subseteq 0..(vwView.size - 1)))
               => (vwAccess.touched = {} /\ vwRet = Raise("ValueError"))

====
